---- MODULE Spec2Model ----
(***************************************************************************)
(* ZenBlock: the filter-list compiler (parseFilterList and its per-line    *)
(* parsers), the rule application (deduplicateRules, applyFilterRules)     *)
(* against the declarativeNetRequest backend, and the content script's     *)
(* cosmetic-rule lookup (CSSInjector.getApplicableRules).                  *)
(*                                                                         *)
(* JavaScript strings are modelled as sequences of one-character strings,  *)
(* so that startsWith / endsWith / includes / split / substring / trim /   *)
(* replace are computed, not assumed.  parseFilterList's `for (const line  *)
(* of lines)` is modelled one iteration per step; the document is an input *)
(* revealed one line per iteration, each line drawn from LinePool, at most *)
(* MaxLines lines per document.                                            *)
(***************************************************************************)
EXTENDS Integers, Sequences, FiniteSets, TLC

(***************************************************************************)
(* Bounds and program constants                                            *)
(***************************************************************************)
\* ADBLOCK_CONFIG.MAX_RULES is 30000 in the source; scaled down so that the
\* ceiling is reached by documents of MaxLines lines.
MAX_RULES == 2

\* longest document (in lines) fed to parseFilterList
MaxLines == 3

\* the batch size the specification speaks of (5000 there), scaled down
BATCH_SIZE == 1

\* longest selector list per slot of a stored CSS rule set read by the page
MaxSelectors == 1
MaxWideLines == 1

Min(a, b) == IF a < b THEN a ELSE b
Max(a, b) == IF a > b THEN a ELSE b

(***************************************************************************)
(* JavaScript String methods over sequences of characters                  *)
(***************************************************************************)
\* String.prototype.startsWith
StartsWith(s, p) == Len(s) >= Len(p) /\ SubSeq(s, 1, Len(p)) = p

\* String.prototype.endsWith
EndsWith(s, p) == Len(s) >= Len(p) /\ SubSeq(s, Len(s) - Len(p) + 1, Len(s)) = p

\* String.prototype.indexOf (0-based, -1 when absent)
IndexOf(s, p) ==
    LET hits == {i \in 0..(Len(s) - Len(p)) : SubSeq(s, i + 1, i + Len(p)) = p}
    IN  IF hits = {} THEN -1 ELSE CHOOSE i \in hits : \A j \in hits : i <= j

\* String.prototype.includes
Includes(s, p) == IndexOf(s, p) # -1

\* String.prototype.substring(start, end): arguments clamped to [0, length]
\* and swapped when start > end
Substring(s, a, b) ==
    LET ca == Min(Max(a, 0), Len(s))
        cb == Min(Max(b, 0), Len(s))
    IN  SubSeq(s, Min(ca, cb) + 1, Max(ca, cb))

\* String.prototype.substring(start)
SubstringFrom(s, a) == Substring(s, a, Len(s))

\* String.prototype.split(separator), separator non-empty
RECURSIVE Split(_, _)
Split(s, sep) ==
    LET i == IndexOf(s, sep)
    IN  IF i = -1 THEN <<s>>
        ELSE <<SubSeq(s, 1, i)>> \o Split(SubSeq(s, i + Len(sep) + 1, Len(s)), sep)

WhiteSpace == {" ", "\t", "\r"}

RECURSIVE TrimStart(_)
TrimStart(s) ==
    IF s # <<>> /\ Head(s) \in WhiteSpace THEN TrimStart(Tail(s)) ELSE s

RECURSIVE TrimEnd(_)
TrimEnd(s) ==
    IF s # <<>> /\ s[Len(s)] \in WhiteSpace THEN TrimEnd(SubSeq(s, 1, Len(s) - 1)) ELSE s

\* String.prototype.trim
Trim(s) == TrimEnd(TrimStart(s))

\* String.prototype.replace(pattern, replacement) with a string pattern:
\* only the first occurrence is replaced
ReplaceFirst(s, p, r) ==
    LET i == IndexOf(s, p)
    IN  IF i = -1 THEN s
        ELSE SubSeq(s, 1, i) \o r \o SubSeq(s, i + Len(p) + 1, Len(s))

\* String.prototype.replace(/c/g, r) for a one-character pattern
ReplaceAllChar(s, c, r) ==
    [i \in 1..Len(s) |-> IF s[i] = c THEN r ELSE s[i]]

(***************************************************************************)
(* String literals of the source                                           *)
(***************************************************************************)
sBang == <<"!">>
sHashHash == <<"#", "#">>
sAtAt == <<"@", "@">>
sBarBar == <<"|", "|">>
sBar == <<"|">>
sCaret == <<"^">>
sSlash == <<"/">>
sSlashStar == <<"/", "*">>
sDollar == <<"$">>
sStar == <<"*">>
sDot == <<".">>
sDotDot == <<".", ".">>
sComma == <<",">>
sGlobal == <<"g", "l", "o", "b", "a", "l">>
sImportant == <<"i", "m", "p", "o", "r", "t", "a", "n", "t">>
sThirdParty == <<"t", "h", "i", "r", "d", "-", "p", "a", "r", "t", "y">>

\* the twelve resource types listed in parseExceptionRule and
\* createComprehensiveBlockRule
AllResourceTypes ==
    <<"script", "image", "stylesheet", "object", "xmlhttprequest", "sub_frame",
      "ping", "csp_report", "media", "font", "websocket", "other">>

\* resourceTypeMap of parseResourceTypeRule: option text -> resource type
resourceTypeMap ==
    (<<"s", "c", "r", "i", "p", "t">> :> "script")
    @@ (<<"i", "m", "a", "g", "e">> :> "image")
    @@ (<<"s", "t", "y", "l", "e", "s", "h", "e", "e", "t">> :> "stylesheet")
    @@ (<<"o", "b", "j", "e", "c", "t">> :> "object")
    @@ (<<"x", "m", "l", "h", "t", "t", "p", "r", "e", "q", "u", "e", "s", "t">> :> "xmlhttprequest")
    @@ (<<"s", "u", "b", "_", "f", "r", "a", "m", "e">> :> "sub_frame")
    @@ (<<"p", "i", "n", "g">> :> "ping")
    @@ (<<"c", "s", "p", "_", "r", "e", "p", "o", "r", "t">> :> "csp_report")
    @@ (<<"m", "e", "d", "i", "a">> :> "media")
    @@ (<<"f", "o", "n", "t">> :> "font")
    @@ (<<"w", "e", "b", "s", "o", "c", "k", "e", "t">> :> "websocket")
    @@ (<<"o", "t", "h", "e", "r">> :> "other")

\* the character class [a-z0-9.-]
DomainChars ==
    {"a", "b", "c", "d", "e", "f", "g", "h", "i", "j", "k", "l", "m",
     "n", "o", "p", "q", "r", "s", "t", "u", "v", "w", "x", "y", "z",
     "0", "1", "2", "3", "4", "5", "6", "7", "8", "9", ".", "-"}

(***************************************************************************)
(* The per-line parsers.  A parser's result is a sequence holding the      *)
(* rule, or the empty sequence for `return null`.                          *)
(***************************************************************************)
Null == <<>>

\* variant: the token is lower-cased before it is tested
isValidFilterDomainLowerCased(domain) ==
    /\ ~(domain = <<>> \/ Len(domain) < 3)
    /\ ~(Len(domain) > 253)
    /\ \A i \in 1..Len(domain) :
          (IF domain[i] = "A" THEN "a" ELSE domain[i]) \in DomainChars
    /\ ~StartsWith(domain, sDot)
    /\ ~EndsWith(domain, sDot)
    /\ ~Includes(domain, sDotDot)

\* isValidFilterDomain: length in [3, 253], /^[a-z0-9.-]+$/, no leading or
\* trailing dot, no "..".
isValidFilterDomain(domain) ==
    /\ ~(domain = <<>> \/ Len(domain) < 3)
    /\ ~(Len(domain) > 253)
    /\ \A i \in 1..Len(domain) : domain[i] \in DomainChars
    /\ ~StartsWith(domain, sDot)
    /\ ~EndsWith(domain, sDot)
    /\ ~Includes(domain, sDotDot)

\* variant: the anchor character is kept, as createBlockRule does
createComprehensiveBlockRuleAnchored(id, domain) ==
    [id |-> id,
     priority |-> 1,
     action |-> [type |-> "block"],
     condition |-> [urlFilter |-> sBarBar \o domain \o sCaret,
                    resourceTypes |-> AllResourceTypes,
                    excludedInitiatorDomains |-> <<>>]]

createComprehensiveBlockRule(id, domain) ==
    [id |-> id,
     priority |-> 1,
     action |-> [type |-> "block"],
     condition |-> [urlFilter |-> sBarBar \o domain,
                    resourceTypes |-> AllResourceTypes,
                    excludedInitiatorDomains |-> <<>>]]

\* variant: the exception is emitted as an ordinary block rule
parseExceptionRuleAsBlock(line, id) ==
    LET cleanLine == SubstringFrom(line, 2)
        domain == Substring(cleanLine, 2, Len(cleanLine) - 1)
    IN  IF StartsWith(cleanLine, sBarBar) /\ EndsWith(cleanLine, sCaret)
           /\ isValidFilterDomain(domain)
        THEN <<[id |-> id,
                priority |-> 1,
                action |-> [type |-> "block"],
                condition |-> [urlFilter |-> sBarBar \o domain \o sCaret,
                               resourceTypes |-> AllResourceTypes]]>>
        ELSE Null

parseExceptionRule(line, id) ==
    LET cleanLine == SubstringFrom(line, 2)
        domain == Substring(cleanLine, 2, Len(cleanLine) - 1)
    IN  IF StartsWith(cleanLine, sBarBar) /\ EndsWith(cleanLine, sCaret)
           /\ isValidFilterDomain(domain)
        THEN <<[id |-> id,
                priority |-> 2,
                action |-> [type |-> "allow"],
                condition |-> [urlFilter |-> sBarBar \o domain \o sCaret,
                               resourceTypes |-> AllResourceTypes]]>>
        ELSE Null

parseURLPatternRule(line, id) ==
    LET replaced == IF Includes(line, sStar) THEN ReplaceAllChar(line, "*", "*") ELSE line
        urlFilter == IF ~StartsWith(replaced, sBarBar) /\ ~StartsWith(replaced, sBar)
                     THEN sStar \o replaced \o sStar
                     ELSE replaced
    IN  <<[id |-> id,
           priority |-> 1,
           action |-> [type |-> "block"],
           condition |-> [urlFilter |-> urlFilter,
                          resourceTypes |-> <<"script", "image", "stylesheet",
                                              "object", "xmlhttprequest">>]]>>

\* the resource types pushed by the option loop of parseResourceTypeRule
RECURSIVE OptionResourceTypes(_)
OptionResourceTypes(options) ==
    IF options = <<>> THEN <<>>
    ELSE LET cleanOption == Trim(Head(options))
         IN  (IF cleanOption # sImportant /\ cleanOption # sThirdParty
                 /\ cleanOption \in DOMAIN resourceTypeMap
              THEN <<resourceTypeMap[cleanOption]>>
              ELSE <<>>) \o OptionResourceTypes(Tail(options))

parseResourceTypeRule(line, id) ==
    LET parts == Split(line, sDollar)
    IN  IF Len(parts) # 2 THEN Null
        ELSE
        LET pattern == parts[1]
            options == Split(parts[2], sComma)
            isImportant == \E i \in 1..Len(options) : Trim(options[i]) = sImportant
            isThirdParty == \E i \in 1..Len(options) : Trim(options[i]) = sThirdParty
            pushed == OptionResourceTypes(options)
            resourceTypes == IF Len(pushed) = 0
                             THEN <<"script", "image", "stylesheet">>
                             ELSE pushed
            urlFilter == IF StartsWith(pattern, sBarBar) THEN pattern
                         ELSE IF ~Includes(pattern, sStar) THEN sStar \o pattern \o sStar
                         ELSE pattern
        IN  <<[id |-> id,
               priority |-> IF isImportant THEN 3 ELSE 1,
               action |-> [type |-> "block"],
               condition |-> [urlFilter |-> urlFilter,
                              resourceTypes |-> resourceTypes,
                              domainType |-> IF isThirdParty THEN "thirdParty"
                                             ELSE "undefined"]]>>

parseCSSRule(line) ==
    LET isException == StartsWith(line, sAtAt)
        cleanLine == IF isException THEN SubstringFrom(line, 2) ELSE line
        parts == Split(cleanLine, sHashHash)
    IN  IF Len(parts) # 2 THEN Null
        ELSE IF parts[2] = <<>> \/ Len(parts[2]) < 1 THEN Null
        ELSE <<[domain |-> IF parts[1] = <<>> THEN sGlobal ELSE parts[1],
                selector |-> Trim(parts[2]),
                isException |-> isException]>>

(***************************************************************************)
(* Rule application: deduplicateRules and the backend update               *)
(***************************************************************************)
\* rule.action.type as text, for the template string of deduplicateRules
ActionTypeText ==
    ("block" :> <<"b", "l", "o", "c", "k">>) @@ ("allow" :> <<"a", "l", "l", "o", "w">>)

\* variant: the key is the urlFilter alone
DedupKeyUrlOnly(rule) == rule.condition.urlFilter

\* `${rule.condition.urlFilter}|${rule.action.type}`
DedupKey(rule) == rule.condition.urlFilter \o sBar \o ActionTypeText[rule.action.type]

\* the for-loop of deduplicateRules, from position i with the Set `seen`
RECURSIVE DedupFrom(_, _, _)
DedupFrom(rs, i, seen) ==
    IF i > Len(rs) THEN <<>>
    ELSE IF DedupKey(rs[i]) \notin seen
         THEN <<rs[i]>> \o DedupFrom(rs, i + 1, seen \cup {DedupKey(rs[i])})
         ELSE DedupFrom(rs, i + 1, seen)

deduplicateRules(rs) == DedupFrom(rs, 1, {})

\* variant: a rule that already carries a list keeps it
WithWhitelistKeepOwn(rule, storage) ==
    LET w == IF "whitelist" \in DOMAIN storage THEN storage.whitelist ELSE <<>>
        c == rule.condition
    IN  [rule EXCEPT !.condition =
            [f \in (DOMAIN c) \cup {"excludedInitiatorDomains"} |->
                IF f = "excludedInitiatorDomains"
                THEN (IF f \in DOMAIN c THEN c[f] ELSE w)
                ELSE c[f]]]

\* { ...rule, condition: { ...rule.condition, excludedInitiatorDomains: whitelist || [] } }
WithWhitelist(rule, storage) ==
    LET w == IF "whitelist" \in DOMAIN storage THEN storage.whitelist ELSE <<>>
        c == rule.condition
    IN  [rule EXCEPT !.condition =
            [f \in (DOMAIN c) \cup {"excludedInitiatorDomains"} |->
                IF f = "excludedInitiatorDomains" THEN w ELSE c[f]]]

\* deduplicatedRules.map(...) of applyFilterRules
UpdatedRules(rs, storage) ==
    LET d == deduplicateRules(rs)
    IN  [i \in 1..Len(d) |-> WithWhitelist(d[i], storage)]

\* existingRules.map(rule => rule.id)
RuleIds(rs) == [i \in 1..Len(rs) |-> rs[i].id]

\* variant: the call carries no removals
UpdateCallNoRemovals(existingRuleIds, updatedRules) ==
    [removeRuleIds |-> <<>>, addRules |-> updatedRules]

\* the single argument of chrome.declarativeNetRequest.updateDynamicRules
UpdateCall(existingRuleIds, updatedRules) ==
    [removeRuleIds |-> existingRuleIds, addRules |-> updatedRules]

Range(f) == {f[i] : i \in DOMAIN f}

\* SelectSeq with a one-argument test over records
RECURSIVE WithoutIds(_, _)
WithoutIds(rs, ids) ==
    IF rs = <<>> THEN <<>>
    ELSE (IF Head(rs).id \in ids THEN <<>> ELSE <<Head(rs)>>) \o WithoutIds(Tail(rs), ids)

\* the backend's effect of an accepted updateDynamicRules call: the rules
\* named in removeRuleIds are removed, then addRules are added
BackendAfter(installed, call) ==
    WithoutIds(installed, Range(call.removeRuleIds)) \o call.addRules

(***************************************************************************)
(* CSS rule store                                                          *)
(***************************************************************************)
EmptyMap == [k \in {} |-> <<>>]

\* const cssRules = { global: [], domains: {}, exceptions: {} }
EmptyCssRules == [global |-> <<>>, domains |-> EmptyMap, exceptions |-> EmptyMap]

\* if (!map[key]) map[key] = []; map[key].push(v)
PushTo(map, key, v) ==
    [k \in (DOMAIN map) \cup {key} |->
        IF k = key
        THEN (IF key \in DOMAIN map THEN map[key] ELSE <<>>) \o <<v>>
        ELSE map[k]]

\* the if (cssRule) {...} block of parseFilterList
AddCssRule(store, parsed) ==
    IF parsed = Null THEN store
    ELSE LET cssRule == parsed[1]
         IN  IF cssRule.isException
             THEN [store EXCEPT !.exceptions = PushTo(@, cssRule.domain, cssRule.selector)]
             ELSE [store EXCEPT !.domains = PushTo(@, cssRule.domain, cssRule.selector)]

\* rules.filter(rule => !exceptionRules.some(e => rule.includes(e.replace('@@', ''))))
RECURSIVE FilterExceptions(_, _)
FilterExceptions(rs, exceptionRules) ==
    IF rs = <<>> THEN <<>>
    ELSE (IF \E i \in 1..Len(exceptionRules) :
                Includes(Head(rs), ReplaceFirst(exceptionRules[i], sAtAt, <<>>))
          THEN <<>> ELSE <<Head(rs)>>)
         \o FilterExceptions(Tail(rs), exceptionRules)

\* CSSInjector.getApplicableRules; stored is the record read from storage
\* (result.cssRules || {}), currentDomain is this.domain
getApplicableRules(stored, currentDomain) ==
    LET fromGlobal == IF "global" \in DOMAIN stored THEN stored.global ELSE <<>>
        fromDomain == IF "domains" \in DOMAIN stored /\ currentDomain \in DOMAIN stored.domains
                      THEN stored.domains[currentDomain] ELSE <<>>
        exceptionRules == IF "exceptions" \in DOMAIN stored
                             /\ currentDomain \in DOMAIN stored.exceptions
                          THEN stored.exceptions[currentDomain] ELSE <<>>
    IN  FilterExceptions(fromGlobal \o fromDomain, exceptionRules)

(***************************************************************************)
(* Inputs                                                                  *)
(***************************************************************************)
\* the filter-list lines a document is made of, one per category and outcome
LinePool ==
    { <<"!", "a", "b">>,                              \* comment
      <<>>,                                           \* empty line
      <<"a", "b">>,                                   \* shorter than 3
      <<"a", "b", "c">>,                              \* no category
      <<"|", "|", "a", ".", "c", "^">>,               \* ||a.c^
      <<"|", "|", "a", "^">>,                         \* ||a^     (domain too short)
      <<"|", "|", "b", ".", "c", "/", "*">>,          \* ||b.c/*
      <<"|", "|", "b", ".", "c">>,                    \* ||b.c
      <<"@", "@", "|", "|", "a", ".", "c", "^">>,     \* @@||a.c^
      <<"@", "@", "|", "|", "a", "^">>,               \* @@||a^   (domain too short)
      <<"/", "a", "/", "*">>,                         \* /a/*
      <<"|", "|", "a", ".", "c", "^", "$", "^">>,     \* ||a.c^$^
      <<"|", "|", "a", ".", "c", "^", "$", "f", "o", "n", "t", ",",
        "i", "m", "p", "o", "r", "t", "a", "n", "t", ",",
        "t", "h", "i", "r", "d", "-", "p", "a", "r", "t", "y">>,
                                                      \* ||a.c^$font,important,third-party
      <<"#", "#", ".", "x">>,                         \* ##.x
      <<"a", ".", "c", "#", "#", ".", "x">>,          \* a.c##.x
      <<"@", "@", "a", ".", "c", "#", "#", ".", "x">> \* @@a.c##.x
    }

\* a label of n characters
LongLabel(n) == [i \in 1..n |-> "a"]

\* tokens the domain branches hand to isValidFilterDomain
DomainTokens ==
    {
      <<>>,                              \* empty
      <<"a", "b">>,                      \* shorter than 3
      <<"a", "b", "c">>,                 \* 3 characters
      <<"a", "-", "c">>,                 \* hyphen
      <<"0", ".", "9">>,                 \* digits
      <<"A", ".", "c">>,                 \* upper case
      <<"a", "_", "c">>,                 \* character outside the class
      <<".", "a", "b">>,                 \* leading dot
      <<"a", "b", ".">>,                 \* trailing dot
      <<"a", ".", ".", "c">>,            \* two dots in a row
      LongLabel(253),                   \* the longest length accepted
      LongLabel(254)                    \* one more
    }

\* the lines ||token^
AnchorLines == { sBarBar \o t \o sCaret : t \in DomainTokens }

\* lines that match more than one category
CategoryLines ==
    {
      <<"|", "|", "a", ".", "c", "^", "$", "s", "c", "r", "i", "p", "t">>,
        \* ||a.c^$script   ($ before the domain rules)
      <<"|", "|", "a", ".", "c", "^", "#", "#", ".", "x">>,
        \* ||a.c^##.x   (## before the domain rules)
      <<"@", "@", "|", "|", "a", ".", "c", "^", "#", "#", ".", "x">>,
        \* @@||a.c^##.x   (## before @@)
      <<"@", "@", "|", "|", "a", ".", "c", "^", "$", "s", "c", "r", "i", "p", "t">>,
        \* @@||a.c^$script   (@@ before $)
      <<"/", "a", "/", "*", "$", "s", "c", "r", "i", "p", "t">>,
        \* /a/*$script   (/.../* before $)
      <<"@", "@", "/", "a", "/", "*">>,
        \* @@/a/*   (@@ before /.../*)
      <<"/", "a", "/", "*", "#", "#", ".", "x">>
        \* /a/*##.x   (## before /.../*)
    }

\* lines that start with /
PathLines ==
    {
      <<"/", "a", "d", "s", "/", "b", "a", "n", "n", "e", "r", ".", "j", "s">>,
        \* /ads/banner.js   (no * after the second /)
      <<"/", "a", "/", "b">>,
        \* /a/b   (no * after the second /)
      <<"/", "a", "/", "*", "b">>,
        \* /a/*b   (* after the second /)
      <<"/", "*", "a">>
        \* /*a   (a single /, then *)
    }

\* lines ||domain followed by more text
AnchorRestLines ==
    {
      <<"|", "|", "a", "d", "s", ".", "e", "x", "a", "m", "p", "l", "e", ".", "c", "o", "m", "^", "b", "a", "n", "n", "e", "r">>,
        \* ||ads.example.com^banner   (text after ^)
      <<"|", "|", "a", ".", "c", "^", "b">>,
        \* ||a.c^b   (text after ^)
      <<"|", "|", "a", ".", "c", "/", "b">>,
        \* ||a.c/b   (a path with no *)
      <<"|", "|", "a", ".", "c", "/", "*", "b">>
        \* ||a.c/*b   (a path that starts with *)
    }

\* lines with $ options
OptionLines ==
    {
      <<"$", "s", "c", "r", "i", "p", "t">>,
        \* $script   (no pattern)
      <<"a", "b", "$">>,
        \* ab$   (no options)
      <<"a", "$", "b", "$", "c">>,
        \* a$b$c   (two $)
      <<"a", "b", "$", "x", "y", "z">>
        \* ab$xyz   (no option names a resource type)
    }

\* element hiding lines
SelectorLines ==
    {
      <<"a", ".", "c", "#", "#", " ">>,
        \* a.c##    (a selector of one blank)
      <<"a", ".", "c", "#", "#">>,
        \* a.c##   (no selector)
      <<"a", ".", "c", "#", "#", " ", ".", "x", " ">>,
        \* a.c## .x    (blanks around the selector)
      <<"a", ".", "c", "#", "#", ".", "x", "#", "#", "y">>
        \* a.c##.x##y   (## inside the selector)
    }

\* documents of few lines over many kinds of line
WideLinePool ==
    LinePool \cup AnchorLines \cup CategoryLines \cup PathLines \cup AnchorRestLines
        \cup OptionLines \cup SelectorLines

\* page host names and whitelist entries
DomainPool == { <<"a", ".", "c">>, <<"b", ".", "c">> }

\* selectors of a stored CSS rule set
SelectorPool == { <<".", "x">>, <<".", "x", "y">>, <<"@", "@", ".", "x">> }

SeqsUpTo(S, n) == UNION {[1..k -> S] : k \in 0..n}

\* maps from some of the keys in D to non-empty lists over S
MapsOver(D, S, n) == UNION {[K -> SeqsUpTo(S, n) \ {<<>>}] : K \in SUBSET D}

\* the CSS rule sets chrome.storage.local can hold under the key cssRules
StoredCssRules ==
    [global : SeqsUpTo(SelectorPool, MaxSelectors),
     domains : MapsOver({<<"a", ".", "c">>}, SelectorPool, MaxSelectors),
     exceptions : MapsOver(DomainPool, SelectorPool, MaxSelectors)]

\* a rule left in the backend by an earlier session (applyFallbackRules)
FallbackRule == createComprehensiveBlockRule(9991,
    <<"d", "o", "u", "b", "l", "e", "c", "l", "i", "c", "k", ".", "n", "e", "t">>)

(***************************************************************************)
(* State                                                                   *)
(***************************************************************************)
VARIABLES
    pc,               \* position of the load-compile-apply pipeline
    line,             \* parseFilterList: the loop variable
    nLines,           \* parseFilterList: lines consumed so far
    id,               \* parseFilterList: let id
    ruleCount,        \* parseFilterList: let ruleCount
    rules,            \* parseFilterList: const rules
    cssRules,         \* parseFilterList: const cssRules
    syncStorage,      \* chrome.storage.sync (key whitelist)
    localStorage,     \* chrome.storage.local (key cssRules)
    dynamicRules,     \* the backend's installed dynamic rules
    calls,            \* updateDynamicRules calls issued by applyFilterRules
    pageDomain,       \* CSSInjector.domain
    pagePc,           \* position of the content script
    applicableRules,  \* CSSInjector: result of getApplicableRules
    retryCount,       \* loadFilterLists: the retryCount argument
    compiled,         \* the last compile of a fetched text and how it ended
    onInstalled,      \* position of the chrome.runtime.onInstalled listener
    pipelines,        \* the handler invocations of the service worker
    retryQueue,       \* ZenBlockRecovery.retryQueue, as operation names
    items,            \* the fields of the queued items, by operation name
    inFlight,         \* processRetryQueue calls awaiting their operation
    retryTimers       \* pending setTimeout callbacks of processRetryQueue

vars == <<pc, line, nLines, id, ruleCount, rules, cssRules, syncStorage,
          localStorage, dynamicRules, calls, pageDomain, pagePc, applicableRules,
          retryCount, compiled, onInstalled, pipelines, retryQueue, items,
          inFlight, retryTimers>>

parseVars == <<line, nLines, id, ruleCount, rules, cssRules>>
backendVars == <<dynamicRules, calls>>
pageVars == <<pageDomain, pagePc, applicableRules>>
loadVars == <<retryCount, compiled, onInstalled>>
workerVars == <<pipelines>>
recoveryVars == <<retryQueue, items, inFlight, retryTimers>>

EmptyStorage == [k \in {} |-> <<>>]

\* a whitelist saved by handleUpdateWhitelist
StoredWhitelist == << <<"a", ".", "c">>, <<"b", ".", "c">> >>

PipelineIdle ==
    /\ pc = "idle"
    /\ line = <<>>
    /\ nLines = 0
    /\ id = 1
    /\ ruleCount = 0
    /\ rules = <<>>
    /\ cssRules = EmptyCssRules
    /\ calls = <<>>

PageIdle ==
    /\ pageDomain \in DomainPool
    /\ pagePc = "init"
    /\ applicableRules = <<>>

\* no text has been compiled yet
NoCompile == [by |-> "none", fetched |-> <<>>, failed |-> FALSE, rules |-> <<>>]

LoadIdle ==
    /\ retryCount = 0
    /\ compiled = NoCompile
    /\ onInstalled = "none"

\* no handler is running and the retry queue of the recovery object is empty
WorkerIdle ==
    /\ pipelines = <<>>
    /\ retryQueue = <<>>
    /\ items = [o \in {} |-> <<>>]
    /\ inFlight = <<>>
    /\ retryTimers = 0

Init ==
    /\ PipelineIdle
    /\ LoadIdle
    /\ WorkerIdle
    /\ syncStorage \in {EmptyStorage, [whitelist |-> StoredWhitelist]}
    /\ localStorage = EmptyStorage
    /\ dynamicRules \in {<<>>, <<FallbackRule>>}
    /\ PageIdle
    /\ pageDomain = <<"a", ".", "c">>

(***************************************************************************)
(* parseFilterList                                                         *)
(***************************************************************************)
\* lines 411-419: the locals
ParseFilterListBegin ==
    /\ pc = "idle"
    /\ pc' = "loop"
    /\ line' = <<>>
    /\ nLines' = 0
    /\ id' = 1
    /\ ruleCount' = 0
    /\ rules' = <<>>
    /\ cssRules' = EmptyCssRules
    /\ UNCHANGED <<syncStorage, localStorage, backendVars, pageVars, loadVars, workerVars, recoveryVars>>

\* the loop takes the next line l of a document of at most max lines
NextLineUpTo(l, max) ==
    /\ pc = "loop"
    /\ nLines < max
    /\ line' = l
    /\ nLines' = nLines + 1

NextLine(l) == NextLineUpTo(l, MaxLines)

IsSkipped(l) == StartsWith(l, sBang) \/ Trim(l) = <<>> \/ Len(l) < 3
IsCssLine(l) == ~IsSkipped(l) /\ Includes(l, sHashHash)
IsExceptionLine(l) == ~IsSkipped(l) /\ ~IsCssLine(l) /\ StartsWith(l, sAtAt)
IsUrlPatternLine(l) ==
    /\ ~IsSkipped(l) /\ ~IsCssLine(l) /\ ~IsExceptionLine(l)
    /\ StartsWith(l, sSlash) /\ Includes(l, sSlashStar)
\* variant: a line that starts with || is left to the domain rules
IsResourceTypeLineUnanchored(l) ==
    /\ ~IsSkipped(l) /\ ~IsCssLine(l) /\ ~IsExceptionLine(l) /\ ~IsUrlPatternLine(l)
    /\ Includes(l, sDollar) /\ ~StartsWith(l, sBarBar)

IsResourceTypeLine(l) ==
    /\ ~IsSkipped(l) /\ ~IsCssLine(l) /\ ~IsExceptionLine(l) /\ ~IsUrlPatternLine(l)
    /\ Includes(l, sDollar)
IsOtherLine(l) ==
    /\ ~IsSkipped(l) /\ ~IsCssLine(l) /\ ~IsExceptionLine(l) /\ ~IsUrlPatternLine(l)
    /\ ~IsResourceTypeLine(l)

\* lines 423-426: comments, empty and short lines
SkipLineOf(pool, max) ==
    \E l \in pool :
        /\ NextLineUpTo(l, max)
        /\ IsSkipped(l)
        /\ UNCHANGED <<pc, id, ruleCount, rules, cssRules>>
        /\ UNCHANGED <<syncStorage, localStorage, backendVars, pageVars, loadVars, workerVars, recoveryVars>>

SkipLine == SkipLineOf(LinePool, MaxLines)

\* lines 430-448: element hiding rules, then continue
CssLineOf(pool, max) ==
    \E l \in pool :
        /\ NextLineUpTo(l, max)
        /\ IsCssLine(l)
        /\ cssRules' = AddCssRule(cssRules, parseCSSRule(l))
        /\ UNCHANGED <<pc, id, ruleCount, rules>>
        /\ UNCHANGED <<syncStorage, localStorage, backendVars, pageVars, loadVars, workerVars, recoveryVars>>

CssLine == CssLineOf(LinePool, MaxLines)

\* a branch that calls parser(line, id++), pushes a non-null result, continues
ParsedWith(result) ==
    /\ id' = id + 1
    /\ rules' = rules \o result
    /\ ruleCount' = ruleCount + Len(result)
    /\ UNCHANGED <<pc, cssRules>>
    /\ UNCHANGED <<syncStorage, localStorage, backendVars, pageVars, loadVars, workerVars, recoveryVars>>

\* lines 451-458
ExceptionLineOf(pool, max) ==
    \E l \in pool :
        /\ NextLineUpTo(l, max)
        /\ IsExceptionLine(l)
        /\ ParsedWith(parseExceptionRule(l, id))

ExceptionLine == ExceptionLineOf(LinePool, MaxLines)

\* lines 461-468
UrlPatternLineOf(pool, max) ==
    \E l \in pool :
        /\ NextLineUpTo(l, max)
        /\ IsUrlPatternLine(l)
        /\ ParsedWith(parseURLPatternRule(l, id))

UrlPatternLine == UrlPatternLineOf(LinePool, MaxLines)

\* lines 471-478
ResourceTypeLineOf(pool, max) ==
    \E l \in pool :
        /\ NextLineUpTo(l, max)
        /\ IsResourceTypeLine(l)
        /\ ParsedWith(parseResourceTypeRule(l, id))

ResourceTypeLine == ResourceTypeLineOf(LinePool, MaxLines)

\* lines 481-503: the domain the if / else-if chain extracts from l, as a
\* sequence holding it, or the empty sequence when no branch matches
BlockDomain(l) ==
    IF StartsWith(l, sBarBar) /\ EndsWith(l, sCaret)
    THEN <<Substring(l, 2, Len(l) - 1)>>
    ELSE IF StartsWith(l, sBarBar) /\ Includes(l, sSlashStar)
    THEN <<Substring(l, 2, IndexOf(l, sSlashStar))>>
    ELSE IF StartsWith(l, sBarBar)
    THEN <<SubstringFrom(l, 2)>>
    ELSE <<>>

\* the rule the chain pushes for l with the counter at i, if any
BlockRuleOf(l, i) ==
    LET d == BlockDomain(l)
    IN  IF d # <<>> /\ isValidFilterDomain(d[1])
        THEN <<createComprehensiveBlockRule(i, d[1])>>
        ELSE Null

\* line 506: the ceiling test that ends the loop
LimitReached(count) == count >= MAX_RULES

\* lines 481-509: the domain rules and the ceiling test after them
BlockLineOf(pool, max) ==
    \E l \in pool :
        /\ NextLineUpTo(l, max)
        /\ IsOtherLine(l)
        /\ LET r == BlockRuleOf(l, id)
           IN  /\ rules' = rules \o r
               /\ id' = id + Len(r)
               /\ ruleCount' = ruleCount + Len(r)
               /\ pc' = IF LimitReached(ruleCount + Len(r)) THEN "store" ELSE "loop"
        /\ UNCHANGED cssRules
        /\ UNCHANGED <<syncStorage, localStorage, backendVars, pageVars, loadVars, workerVars, recoveryVars>>

BlockLine == BlockLineOf(LinePool, MaxLines)

\* the document has no further line
EndOfLines ==
    /\ pc = "loop"
    /\ pc' = "store"
    /\ UNCHANGED parseVars
    /\ UNCHANGED <<syncStorage, localStorage, backendVars, pageVars, loadVars, workerVars, recoveryVars>>

\* lines 518-519: chrome.storage.local after the conditional write of css
CssRulesStored(store, css) ==
    IF Cardinality(DOMAIN css.domains) > 0 \/ Len(css.global) > 0
    THEN [k \in (DOMAIN store) \cup {"cssRules"} |->
             IF k = "cssRules" THEN css ELSE store[k]]
    ELSE store

\* lines 518-539: the CSS rules are stored when there is a domain or global
\* rule, and the rules are returned
ParseFilterListEnd ==
    /\ pc = "store"
    /\ pc' = "parsed"
    /\ localStorage' = CssRulesStored(localStorage, cssRules)
    /\ UNCHANGED parseVars
    /\ UNCHANGED <<syncStorage, backendVars, pageVars, loadVars, workerVars, recoveryVars>>

(***************************************************************************)
(* applyFilterRules (the later of the two declarations, which is the one   *)
(* in effect)                                                              *)
(***************************************************************************)
\* lines 1226-1249 with the backend accepting the update
ApplyFilterRules ==
    /\ pc = "parsed"
    /\ LET call == UpdateCall(RuleIds(dynamicRules), UpdatedRules(rules, syncStorage))
       IN  /\ calls' = calls \o <<call>>
           /\ dynamicRules' = BackendAfter(dynamicRules, call)
    /\ pc' = "applied"
    /\ UNCHANGED parseVars
    /\ UNCHANGED <<syncStorage, localStorage, pageVars, loadVars, workerVars, recoveryVars>>

\* variant: the rejection is logged and not rethrown
ApplyFilterRulesRejectedSwallowed ==
    /\ pc = "parsed"
    /\ calls' = calls \o <<UpdateCall(RuleIds(dynamicRules), UpdatedRules(rules, syncStorage))>>
    /\ pc' = "applied"
    /\ UNCHANGED dynamicRules
    /\ UNCHANGED parseVars
    /\ UNCHANGED <<syncStorage, localStorage, pageVars, loadVars, workerVars, recoveryVars>>

\* lines 1226-1249 and 1265-1269 with the backend rejecting the update:
\* nothing is installed and the error is rethrown
ApplyFilterRulesRejected ==
    /\ pc = "parsed"
    /\ calls' = calls \o <<UpdateCall(RuleIds(dynamicRules), UpdatedRules(rules, syncStorage))>>
    /\ pc' = "failed"
    /\ UNCHANGED dynamicRules
    /\ UNCHANGED parseVars
    /\ UNCHANGED <<syncStorage, localStorage, pageVars, loadVars, workerVars, recoveryVars>>

Next ==
    \/ ParseFilterListBegin
    \/ SkipLine
    \/ CssLine
    \/ ExceptionLine
    \/ UrlPatternLine
    \/ ResourceTypeLine
    \/ BlockLine
    \/ EndOfLines
    \/ ParseFilterListEnd
    \/ ApplyFilterRules
    \/ ApplyFilterRulesRejected

Spec == Init /\ [][Next]_vars

(***************************************************************************)
(* parseFilterList over short documents drawn from the wide pool of lines  *)
(***************************************************************************)
SkipWideLine == SkipLineOf(WideLinePool, MaxWideLines)
CssWideLine == CssLineOf(WideLinePool, MaxWideLines)
ExceptionWideLine == ExceptionLineOf(WideLinePool, MaxWideLines)
UrlPatternWideLine == UrlPatternLineOf(WideLinePool, MaxWideLines)
ResourceTypeWideLine == ResourceTypeLineOf(WideLinePool, MaxWideLines)
BlockWideLine == BlockLineOf(WideLinePool, MaxWideLines)

\* the CSS rule set an earlier compile of the line b.c##.old has stored
EarlierCssRules ==
    AddCssRule(EmptyCssRules,
               parseCSSRule(<<"b", ".", "c", "#", "#", ".", "o", "l", "d">>))

InitLines ==
    /\ PipelineIdle
    /\ LoadIdle
    /\ WorkerIdle
    /\ syncStorage = EmptyStorage
    /\ localStorage \in {EmptyStorage, [cssRules |-> EarlierCssRules]}
    /\ dynamicRules = <<>>
    /\ PageIdle
    /\ pageDomain = <<"a", ".", "c">>

NextLines ==
    \/ ParseFilterListBegin
    \/ SkipWideLine
    \/ CssWideLine
    \/ ExceptionWideLine
    \/ UrlPatternWideLine
    \/ ResourceTypeWideLine
    \/ BlockWideLine
    \/ EndOfLines
    \/ ParseFilterListEnd

SpecLines == InitLines /\ [][NextLines]_vars

(***************************************************************************)
(* parseFilterList as a function of the text                               *)
(***************************************************************************)
sNewline == <<"\n">>

\* lines 410-419: the locals before the first line
InitialParse ==
    [id |-> 1, ruleCount |-> 0, rules |-> <<>>, cssRules |-> EmptyCssRules,
     stopped |-> FALSE]

\* a branch that calls parser(line, id++) and pushes a non-null result
AfterParsedWith(st, result) ==
    [st EXCEPT !.id = @ + 1,
               !.rules = @ \o result,
               !.ruleCount = @ + Len(result)]

\* lines 421-514: the locals after one pass of the loop body over line l
AfterLine(st, l) ==
    IF IsSkipped(l) THEN st
    ELSE IF IsCssLine(l)
    THEN [st EXCEPT !.cssRules = AddCssRule(@, parseCSSRule(l))]
    ELSE IF IsExceptionLine(l)
    THEN AfterParsedWith(st, parseExceptionRule(l, st.id))
    ELSE IF IsUrlPatternLine(l)
    THEN AfterParsedWith(st, parseURLPatternRule(l, st.id))
    ELSE IF IsResourceTypeLine(l)
    THEN AfterParsedWith(st, parseResourceTypeRule(l, st.id))
    ELSE LET r == BlockRuleOf(l, st.id)
         IN  [st EXCEPT !.id = @ + Len(r),
                        !.rules = @ \o r,
                        !.ruleCount = @ + Len(r),
                        !.stopped = LimitReached(st.ruleCount + Len(r))]

\* lines 421-514: the loop, left at the end of the lines or by the break
RECURSIVE ParseLines(_, _)
ParseLines(st, lines) ==
    IF lines = <<>> \/ st.stopped THEN st
    ELSE ParseLines(AfterLine(st, Head(lines)), Tail(lines))

\* lines 410-540: the locals at the return
parseFilterList(filterList) == ParseLines(InitialParse, Split(filterList, sNewline))

(***************************************************************************)
(* Fetched texts                                                           *)
(***************************************************************************)
\* the text t followed by a comment line that pads it to n characters
PaddedTo(t, n) == t \o sNewline \o sBang \o [i \in 1..(n - Len(t) - 2) |-> "x"]

TextPool ==
    { <<>>,                                                  \* the empty text
      <<"|", "|", "a", ".", "c", "^">>,                      \* one rule, 6 characters
      PaddedTo(<<"|", "|", "a", ".", "c", "^">>, 99),
      PaddedTo(<<"|", "|", "a", ".", "c", "^">>, 100),
      PaddedTo(<<"|", "|", "b", ".", "c", "^", "\n",
                 "b", ".", "c", "#", "#", ".", "y">>, 100) }

\* what fetching delivers: a sequence holding the text, or nothing
Fetched == {<<>>} \cup {<<t>> : t \in TextPool}

(***************************************************************************)
(* loadFilterLists with its retries and the fallback rules, and the other  *)
(* two callers of parseFilterList                                          *)
(***************************************************************************)
\* ADBLOCK_CONFIG.RETRY_ATTEMPTS
RETRY_ATTEMPTS == 3

\* lines 233-240: no text from any source, or a text shorter than 100
loadFilterListThrows(f) == f = <<>> \/ f[1] = <<>> \/ Len(f[1]) < 100

\* the locals of parseFilterList at its return
ParseReturned(p) ==
    /\ id' = p.id
    /\ ruleCount' = p.ruleCount
    /\ rules' = p.rules
    /\ cssRules' = p.cssRules

\* loadFilterLists lines 92-128 with loadFilterList for the one enabled
\* list: the text is fetched, validated and compiled, or the attempt throws
LoadFilterList ==
    \E f \in Fetched :
        /\ pc \in {"idle", "reload"}
        /\ IF loadFilterListThrows(f)
           THEN /\ pc' = "failed"
                /\ compiled' = [by |-> "loadFilterList", fetched |-> f,
                                failed |-> TRUE, rules |-> <<>>]
                /\ UNCHANGED <<id, ruleCount, rules, cssRules, localStorage>>
           ELSE LET p == parseFilterList(f[1])
                IN  /\ pc' = "parsed"
                    /\ compiled' = [by |-> "loadFilterList", fetched |-> f,
                                    failed |-> FALSE, rules |-> p.rules]
                    /\ ParseReturned(p)
                    /\ localStorage' = CssRulesStored(localStorage, p.cssRules)
        /\ UNCHANGED <<line, nLines, retryCount, onInstalled>>
        /\ UNCHANGED <<syncStorage, backendVars, pageVars, workerVars, recoveryVars>>

\* lines 106-109 and 137-139: no retry is running, the load is not forced and
\* the lists were updated recently
LoadFilterListsSkipped ==
    /\ pc = "idle"
    /\ retryCount = 0
    /\ pc' = "skipped"
    /\ UNCHANGED <<parseVars, syncStorage, localStorage, backendVars, pageVars, loadVars, workerVars, recoveryVars>>

\* variant: one more retry is scheduled after the last attempt
ScheduleRetryOnceMore ==
    /\ pc = "failed"
    /\ retryCount <= RETRY_ATTEMPTS
    /\ pc' = "retryWait"
    /\ UNCHANGED <<parseVars, syncStorage, localStorage, backendVars, pageVars, loadVars, workerVars, recoveryVars>>

\* lines 141-146: the catch block schedules the next attempt
ScheduleRetry ==
    /\ pc = "failed"
    /\ retryCount < RETRY_ATTEMPTS
    /\ pc' = "retryWait"
    /\ UNCHANGED <<parseVars, syncStorage, localStorage, backendVars, pageVars, loadVars, workerVars, recoveryVars>>

\* line 145: the timer calls loadFilterLists(retryCount + 1, force)
RetryTimer ==
    /\ pc = "retryWait"
    /\ pc' = "reload"
    /\ retryCount' = retryCount + 1
    /\ UNCHANGED <<compiled, onInstalled>>
    /\ UNCHANGED <<parseVars, syncStorage, localStorage, backendVars, pageVars, workerVars, recoveryVars>>

\* lines 634-645
fallbackRules ==
    <<
       createComprehensiveBlockRule(9991,   \* doubleclick.net
        <<"d", "o", "u", "b", "l", "e", "c", "l", "i", "c", "k", ".", "n",
          "e", "t">>),
       createComprehensiveBlockRule(9992,   \* googlesyndication.com
        <<"g", "o", "o", "g", "l", "e", "s", "y", "n", "d", "i", "c", "a",
          "t", "i", "o", "n", ".", "c", "o", "m">>),
       createComprehensiveBlockRule(9993,   \* googleadservices.com
        <<"g", "o", "o", "g", "l", "e", "a", "d", "s", "e", "r", "v", "i",
          "c", "e", "s", ".", "c", "o", "m">>),
       createComprehensiveBlockRule(9994,   \* googletagmanager.com
        <<"g", "o", "o", "g", "l", "e", "t", "a", "g", "m", "a", "n", "a",
          "g", "e", "r", ".", "c", "o", "m">>),
       createComprehensiveBlockRule(9995,   \* google-analytics.com
        <<"g", "o", "o", "g", "l", "e", "-", "a", "n", "a", "l", "y", "t",
          "i", "c", "s", ".", "c", "o", "m">>),
       createComprehensiveBlockRule(9996,   \* facebook.com
        <<"f", "a", "c", "e", "b", "o", "o", "k", ".", "c", "o", "m">>),
       createComprehensiveBlockRule(9997,   \* connect.facebook.net
        <<"c", "o", "n", "n", "e", "c", "t", ".", "f", "a", "c", "e", "b",
          "o", "o", "k", ".", "n", "e", "t">>),
       createComprehensiveBlockRule(9998,   \* amazon-adsystem.com
        <<"a", "m", "a", "z", "o", "n", "-", "a", "d", "s", "y", "s", "t",
          "e", "m", ".", "c", "o", "m">>),
       createComprehensiveBlockRule(9999,   \* adsystem.google.com
        <<"a", "d", "s", "y", "s", "t", "e", "m", ".", "g", "o", "o", "g",
          "l", "e", ".", "c", "o", "m">>)
    >>

\* lines 146-149 and 632-653: every attempt has failed; the fallback rules
\* go through applyFilterRules, whose error, if any, is logged
ApplyFallbackRules ==
    \E accepted \in BOOLEAN :
        /\ pc = "failed"
        /\ ~(retryCount < RETRY_ATTEMPTS)
        /\ LET call == UpdateCall(RuleIds(dynamicRules),
                                  UpdatedRules(fallbackRules, syncStorage))
           IN  /\ calls' = calls \o <<call>>
               /\ dynamicRules' = IF accepted THEN BackendAfter(dynamicRules, call)
                                   ELSE dynamicRules
        /\ pc' = "fallback"
        /\ UNCHANGED <<parseVars, syncStorage, localStorage, pageVars, loadVars, workerVars, recoveryVars>>

\* lines 47-54: the default settings of the onInstalled listener
defaults ==
    [blockedCount |-> 0,
     isEnabled |-> TRUE,
     whitelist |-> <<>>,
     filterLists |-> [easyList |-> TRUE, privacyList |-> FALSE],
     updateFrequency |-> <<"7">>,
     lastFilterUpdate |-> "recent",
     performanceStats |-> [blockedToday |-> 0, totalBlocked |-> 0,
                           avgResponseTime |-> 0]]

\* lines 56-68: the defaults fill the keys that are not stored yet
WithDefaults(store) ==
    [k \in (DOMAIN store) \cup (DOMAIN defaults) |->
        IF k \in DOMAIN store THEN store[k] ELSE defaults[k]]

\* lines 43-72: the listener stores the missing defaults and calls
\* loadFilterLists()
OnInstalled ==
    /\ pc = "idle"
    /\ onInstalled = "none"
    /\ syncStorage' = WithDefaults(syncStorage)
    /\ onInstalled' = "awaiting"
    /\ UNCHANGED <<pc, parseVars, localStorage, backendVars, pageVars,
                   retryCount, compiled, workerVars, recoveryVars>>

\* lines 74-78 and 632-653: loadFilterLists() has returned (rules applied,
\* load skipped, retry scheduled, or fallback applied) and the listener
\* applies the fallback rules through applyFilterRules, whose error, if
\* any, is logged
OnInstalledFallback ==
    \E accepted \in BOOLEAN :
        /\ onInstalled = "awaiting"
        /\ pc \in {"applied", "skipped", "retryWait", "fallback"}
        /\ LET call == UpdateCall(RuleIds(dynamicRules),
                                  UpdatedRules(fallbackRules, syncStorage))
           IN  /\ calls' = calls \o <<call>>
               /\ dynamicRules' = IF accepted THEN BackendAfter(dynamicRules, call)
                                   ELSE dynamicRules
        /\ onInstalled' = "done"
        /\ UNCHANGED <<pc, parseVars, syncStorage, localStorage, pageVars,
                       retryCount, compiled, workerVars, recoveryVars>>

\* lines 945-964: the text of a list is fetched and compiled for its rule
\* count; any error makes the result null
GetFilterListInfo ==
    \E f \in Fetched :
        /\ pc = "idle"
        /\ IF f = <<>>
           THEN /\ compiled' = [by |-> "getFilterListInfo", fetched |-> f,
                                failed |-> TRUE, rules |-> <<>>]
                /\ UNCHANGED localStorage
           ELSE LET p == parseFilterList(f[1])
                IN  /\ compiled' = [by |-> "getFilterListInfo", fetched |-> f,
                                    failed |-> FALSE, rules |-> p.rules]
                    /\ localStorage' = CssRulesStored(localStorage, p.cssRules)
        /\ UNCHANGED <<pc, parseVars, retryCount, onInstalled>>
        /\ UNCHANGED <<syncStorage, backendVars, pageVars, workerVars, recoveryVars>>

\* lines 1058-1062: chrome.storage.sync with the custom list saved
CustomListSaved(store, count) ==
    [k \in (DOMAIN store) \cup {"customFilterLists"} |->
        IF k = "customFilterLists"
        THEN (IF k \in DOMAIN store THEN store[k] ELSE <<>>) \o <<count>>
        ELSE store[k]]

\* lines 1028-1075: the text at the url is fetched and compiled, the list is
\* saved and the lists are reloaded with force; an error is rethrown
AddCustomFilterList ==
    \E f \in Fetched :
        /\ pc = "idle"
        /\ onInstalled # "awaiting"
        /\ IF f = <<>>
           THEN /\ compiled' = [by |-> "addCustomFilterList", fetched |-> f,
                                failed |-> TRUE, rules |-> <<>>]
                /\ UNCHANGED <<pc, retryCount, syncStorage, localStorage>>
           ELSE LET p == parseFilterList(f[1])
                IN  /\ compiled' = [by |-> "addCustomFilterList", fetched |-> f,
                                    failed |-> FALSE, rules |-> p.rules]
                    /\ localStorage' = CssRulesStored(localStorage, p.cssRules)
                    /\ syncStorage' = CustomListSaved(syncStorage, Len(p.rules))
                    /\ pc' = "reload"
                    /\ retryCount' = 0
        /\ UNCHANGED <<parseVars, backendVars, pageVars, workerVars, recoveryVars>>
        /\ UNCHANGED onInstalled

\* a rule set an earlier load installed
InstalledBefore == <<createComprehensiveBlockRule(1, <<"b", ".", "c">>)>>

InitLoad ==
    /\ PipelineIdle
    /\ LoadIdle
    /\ WorkerIdle
    /\ syncStorage \in {EmptyStorage, [whitelist |-> StoredWhitelist]}
    /\ localStorage = EmptyStorage
    /\ dynamicRules \in {<<>>, InstalledBefore}
    /\ PageIdle
    /\ pageDomain = <<"a", ".", "c">>

NextLoad ==
    \/ LoadFilterList
    \/ LoadFilterListsSkipped
    \/ ApplyFilterRules
    \/ ApplyFilterRulesRejected
    \/ ScheduleRetry
    \/ RetryTimer
    \/ ApplyFallbackRules
    \/ GetFilterListInfo
    \/ AddCustomFilterList
    \/ OnInstalled
    \/ OnInstalledFallback

SpecLoad == InitLoad /\ [][NextLoad]_vars

(***************************************************************************)
(* loadFilterLists with both filter lists enabled                          *)
(***************************************************************************)
\* the texts the two lists can deliver
ListTexts ==
    { PaddedTo(<<"|", "|", "a", ".", "c", "^">>, 100),
      PaddedTo(<<"|", "|", "a", ".", "c", "^", "\n",
                 "a", ".", "c", "#", "#", ".", "x">>, 100),
      PaddedTo(<<"|", "|", "b", ".", "c", "^", "\n",
                 "b", ".", "c", "#", "#", ".", "y">>, 100) }

ListFetched == {<<>>} \cup {<<t>> : t \in ListTexts}

\* loadFilterList for one list: the promise is rejected, or fulfilled with
\* the rules; cssRules is what that compile built
ListOutcome(f) ==
    IF loadFilterListThrows(f)
    THEN [fetched |-> f, failed |-> TRUE, rules |-> <<>>, cssRules |-> EmptyCssRules]
    ELSE LET p == parseFilterList(f[1])
         IN  [fetched |-> f, failed |-> FALSE, rules |-> p.rules,
              cssRules |-> p.cssRules]

\* lines 129-130: the values of the fulfilled promises, flattened
FlatRules(outcomes) ==
    (IF outcomes[1].failed THEN <<>> ELSE outcomes[1].rules)
        \o (IF outcomes[2].failed THEN <<>> ELSE outcomes[2].rules)

\* chrome.storage.local after a compile that ended as outcome o
StoredAfterList(store, o) ==
    IF o.failed THEN store ELSE CssRulesStored(store, o.cssRules)

\* lines 110-135 with easyList and privacyList both enabled: the two lists
\* are fetched and compiled side by side, the compile of list `first`
\* completing first, and the rules of the fulfilled ones are merged
LoadBothFilterLists ==
    \E f1 \in ListFetched, f2 \in ListFetched, first \in {1, 2} :
        LET outcomes == <<ListOutcome(f1), ListOutcome(f2)>>
            second == 3 - first
        IN  /\ pc = "idle"
            /\ compiled' = [by |-> "loadFilterLists", lists |-> outcomes,
                            first |-> first]
            /\ localStorage' =
                 StoredAfterList(StoredAfterList(localStorage, outcomes[first]),
                                 outcomes[second])
            /\ rules' = FlatRules(outcomes)
            /\ pc' = IF outcomes[1].failed /\ outcomes[2].failed
                     THEN "failed" ELSE "parsed"
            /\ UNCHANGED <<line, nLines, id, ruleCount, cssRules, retryCount, onInstalled>>
            /\ UNCHANGED <<syncStorage, backendVars, pageVars, workerVars, recoveryVars>>

NextLists ==
    \/ LoadBothFilterLists
    \/ ApplyFilterRules
    \/ ApplyFilterRulesRejected

SpecLists == InitLoad /\ [][NextLists]_vars

(***************************************************************************)
(* The service worker: message handlers, timers and the loadFilterLists    *)
(* invocations they start, interleaved at their awaits                     *)
(***************************************************************************)
\* at most this many handler invocations are started
MaxPipelines == 2

\* String.prototype.toLowerCase, character by character
UpperToLower ==
    ("A" :> "a") @@ ("B" :> "b") @@ ("C" :> "c") @@ ("D" :> "d") @@ ("E" :> "e")
    @@ ("F" :> "f") @@ ("G" :> "g") @@ ("H" :> "h") @@ ("I" :> "i") @@ ("J" :> "j")
    @@ ("K" :> "k") @@ ("L" :> "l") @@ ("M" :> "m") @@ ("N" :> "n") @@ ("O" :> "o")
    @@ ("P" :> "p") @@ ("Q" :> "q") @@ ("R" :> "r") @@ ("S" :> "s") @@ ("T" :> "t")
    @@ ("U" :> "u") @@ ("V" :> "v") @@ ("W" :> "w") @@ ("X" :> "x") @@ ("Y" :> "y")
    @@ ("Z" :> "z")

toLowerCase(t) == [i \in 1..Len(t) |-> IF t[i] \in DOMAIN UpperToLower
                                        THEN UpperToLower[t[i]] ELSE t[i]]

\* chrome.storage.*.set({k: v})
StorageSet(store, k, v) ==
    [x \in (DOMAIN store) \cup {k} |-> IF x = k THEN v ELSE store[x]]

\* lines 917-922: the entries of the message that pass, trimmed and
\* lower-cased
RECURSIVE validWhitelist(_)
validWhitelist(whitelist) ==
    IF whitelist = <<>> THEN <<>>
    ELSE (IF Len(Trim(Head(whitelist))) > 0 /\ isValidFilterDomain(Trim(Head(whitelist)))
          THEN <<toLowerCase(Trim(Head(whitelist)))>>
          ELSE <<>>) \o validWhitelist(Tail(whitelist))

\* whitelists an updateWhitelist message can carry
WhitelistMessages ==
    { << <<"b", ".", "c">> >>,
      << <<" ", "a", ".", "c", " ">>, <<"B", ".", "c">>, <<"a">>, <<>> >> }

\* what fetching delivers to a handler: nothing, a text whose one rule has
\* id 1, or a text whose first line uses up an id without giving a rule
WorkerFetched ==
    { <<>>,
      <<PaddedTo(<<"|", "|", "a", ".", "c", "^">>, 100)>>,
      <<PaddedTo(<<"@", "@", "|", "|", "a", "^", "\n",
                   "|", "|", "a", ".", "c", "^", "\n",
                   "|", "|", "b", ".", "c", "^">>, 100)>> }

\* lines 103-104: shouldUpdate; the comparison of now with lastFilterUpdate
\* is kept as the stored value "recent" or "stale"
shouldUpdate(store, force) ==
    \/ force
    \/ "lastFilterUpdate" \notin DOMAIN store
    \/ store.lastFilterUpdate = "stale"

\* a handler invocation that calls loadFilterLists(0, force)
NewPipeline(origin, force) ==
    [origin |-> origin, pc |-> "start", stage |-> "lists", retryCount |-> 0,
     force |-> force, rules |-> <<>>, updatedRules |-> <<>>,
     existingRuleIds |-> <<>>]

\* lines 141-149: the catch block of loadFilterLists
Caught(p) ==
    IF p.retryCount < RETRY_ATTEMPTS
    THEN [p EXCEPT !.pc = "retryWait"]
    ELSE [p EXCEPT !.pc = "compiled", !.stage = "fallback", !.rules = fallbackRules]

\* the message reloadFilters
ReloadFilters ==
    /\ Len(pipelines) < MaxPipelines
    /\ pipelines' = Append(pipelines, NewPipeline("reloadFilters", TRUE))
    /\ UNCHANGED <<pc, parseVars, syncStorage, localStorage, backendVars, pageVars,
                   loadVars, recoveryVars>>

\* lines 911-925: the message updateWhitelist up to its call of
\* loadFilterLists()
HandleUpdateWhitelist ==
    \E whitelist \in WhitelistMessages :
        /\ Len(pipelines) < MaxPipelines
        /\ syncStorage' = StorageSet(syncStorage, "whitelist", validWhitelist(whitelist))
        /\ pipelines' = Append(pipelines, NewPipeline("updateWhitelist", FALSE))
        /\ UNCHANGED <<pc, parseVars, localStorage, backendVars, pageVars,
                       loadVars, recoveryVars>>

\* lines 885-897: the message toggleEnabled with isEnabled true
HandleToggleEnabledOn ==
    /\ Len(pipelines) < MaxPipelines
    /\ syncStorage' = StorageSet(syncStorage, "isEnabled", TRUE)
    /\ pipelines' = Append(pipelines, NewPipeline("toggleEnabled", FALSE))
    /\ UNCHANGED <<pc, parseVars, localStorage, backendVars, pageVars,
                   loadVars, recoveryVars>>

\* lines 885-894 and 898: the message toggleEnabled with isEnabled false,
\* up to its call of updateDynamicRules
HandleToggleEnabledOff ==
    /\ Len(pipelines) < MaxPipelines
    /\ syncStorage' = StorageSet(syncStorage, "isEnabled", FALSE)
    /\ pipelines' = Append(pipelines,
                           [NewPipeline("toggleOff", FALSE) EXCEPT !.pc = "remove"])
    /\ UNCHANGED <<pc, parseVars, localStorage, backendVars, pageVars,
                   loadVars, recoveryVars>>

\* line 899: the rules left by removeRuleIds 1..MAX_RULES.  The fallback
\* ids 9991..9999 lie inside the range of the source (1..30000) and are
\* kept inside it here
AfterToggleOff(installed) ==
    WithoutIds(installed, (1..MAX_RULES) \cup (9991..9999))

\* lines 899-901: the removal reaches the backend
ToggleOffRemove(i) ==
    /\ pipelines[i].pc = "remove"
    /\ dynamicRules' = AfterToggleOff(dynamicRules)
    /\ pipelines' = [pipelines EXCEPT ![i].pc = "done"]
    /\ UNCHANGED <<pc, parseVars, syncStorage, localStorage, calls, pageVars,
                   loadVars, recoveryVars>>

\* lines 993-1019: the hourly timer finds the lists out of date and
\* reloads them with force
AutoUpdateFilterLists ==
    /\ Len(pipelines) < MaxPipelines
    /\ shouldUpdate(syncStorage, FALSE)
    /\ pipelines' = Append(pipelines, NewPipeline("autoUpdate", TRUE))
    /\ UNCHANGED <<pc, parseVars, syncStorage, localStorage, backendVars, pageVars,
                   loadVars, recoveryVars>>

\* the update-frequency window since lastFilterUpdate runs out
WindowPasses ==
    /\ "lastFilterUpdate" \in DOMAIN syncStorage
    /\ syncStorage.lastFilterUpdate = "recent"
    /\ syncStorage' = StorageSet(syncStorage, "lastFilterUpdate", "stale")
    /\ UNCHANGED <<pc, parseVars, localStorage, backendVars, pageVars,
                   loadVars, workerVars, recoveryVars>>

\* lines 92-128 and 137-139: an attempt reads the settings and either
\* skips the reload or fetches and compiles the list; autoUpdateFilterLists
\* stores the time (line 1019) when its loadFilterLists call returns, also
\* after a failed first attempt
LoadAttempt(i) ==
    /\ pipelines[i].pc = "start"
    /\ IF shouldUpdate(syncStorage, pipelines[i].force) \/ pipelines[i].retryCount > 0
       THEN \E f \in WorkerFetched :
                pipelines' =
                    [pipelines EXCEPT ![i] =
                        IF loadFilterListThrows(f) THEN Caught(@)
                        ELSE [@ EXCEPT !.pc = "compiled",
                                       !.rules = parseFilterList(f[1]).rules]]
       ELSE pipelines' = [pipelines EXCEPT ![i].pc = "skipped"]
    /\ syncStorage' =
         IF pipelines[i].origin = "autoUpdate" /\ pipelines'[i].pc = "retryWait"
            /\ pipelines[i].retryCount = 0
         THEN StorageSet(syncStorage, "lastFilterUpdate", "recent")
         ELSE syncStorage
    /\ UNCHANGED <<pc, parseVars, localStorage, backendVars, pageVars,
                   loadVars, recoveryVars>>

\* applyFilterRules lines 1226-1240: the whitelist and the installed ids
\* are read
ApplyRead(i) ==
    /\ pipelines[i].pc = "compiled"
    /\ pipelines' = [pipelines EXCEPT
                        ![i].pc = "read",
                        ![i].updatedRules = UpdatedRules(pipelines[i].rules, syncStorage),
                        ![i].existingRuleIds = RuleIds(dynamicRules)]
    /\ UNCHANGED <<pc, parseVars, syncStorage, localStorage, backendVars, pageVars,
                   loadVars, recoveryVars>>

\* applyFilterRules lines 1243-1246, then loadFilterLists line 132: the
\* update is issued with the ids read earlier and the backend accepts it.
\* The log of calls is not kept in this specification
ApplyUpdate(i) ==
    LET p == pipelines[i]
        call == UpdateCall(p.existingRuleIds, p.updatedRules)
    IN  /\ p.pc = "read"
        /\ dynamicRules' = BackendAfter(dynamicRules, call)
        /\ pipelines' = [pipelines EXCEPT ![i].pc = "done"]
        /\ syncStorage' =
             IF p.stage = "lists"
             THEN StorageSet(syncStorage, "lastFilterUpdate", "recent")
             ELSE syncStorage
        /\ UNCHANGED <<pc, parseVars, localStorage, calls, pageVars, loadVars,
                       recoveryVars>>

\* line 145: the retry timer calls loadFilterLists(retryCount + 1, force)
RetryFires(i) ==
    /\ pipelines[i].pc = "retryWait"
    /\ pipelines' = [pipelines EXCEPT ![i].pc = "start",
                                       ![i].retryCount = @ + 1]
    /\ UNCHANGED <<pc, parseVars, syncStorage, localStorage, backendVars, pageVars,
                   loadVars, recoveryVars>>

ToggleOffRemoves == \E i \in 1..Len(pipelines) : ToggleOffRemove(i)
LoadAttempts == \E i \in 1..Len(pipelines) : LoadAttempt(i)
ApplyReads == \E i \in 1..Len(pipelines) : ApplyRead(i)
ApplyUpdates == \E i \in 1..Len(pipelines) : ApplyUpdate(i)
RetriesFire == \E i \in 1..Len(pipelines) : RetryFires(i)

\* the settings written by an earlier session
WorkerSettings ==
    { [isEnabled |-> TRUE, lastFilterUpdate |-> "recent",
       whitelist |-> << <<"a", ".", "c">> >>] }

InitWorker ==
    /\ PipelineIdle
    /\ LoadIdle
    /\ WorkerIdle
    /\ syncStorage \in WorkerSettings
    /\ localStorage = EmptyStorage
    /\ dynamicRules \in {<<>>, UpdatedRules(InstalledBefore, syncStorage)}
    /\ PageIdle
    /\ pageDomain = <<"a", ".", "c">>

NextWorker ==
    \/ ReloadFilters
    \/ HandleUpdateWhitelist
    \/ HandleToggleEnabledOn
    \/ HandleToggleEnabledOff
    \/ ToggleOffRemoves
    \/ AutoUpdateFilterLists
    \/ WindowPasses
    \/ LoadAttempts
    \/ ApplyReads
    \/ ApplyUpdates
    \/ RetriesFire

SpecWorker == InitWorker /\ [][NextWorker]_vars

(***************************************************************************)
(* ZenBlockRecovery: the retry queue                                       *)
(***************************************************************************)
\* operations handed to addToRetryQueue, named 1..MaxOperations
MaxOperations == 2

\* RECOVERY_CONFIG.MAX_RETRIES
MAX_RETRIES == 3

\* sequence q without its element at position k
WithoutAt(q, k) == SubSeq(q, 1, k - 1) \o SubSeq(q, k + 1, Len(q))

\* Array.prototype.shift: the first element is removed, if there is one
Shifted(q) == IF q = <<>> THEN q ELSE Tail(q)

\* the head item's operation is called: one more invocation of it
Invoked(its, o) == [its EXCEPT ![o].invoked = @ + 1]

\* lines 339-345: processRetryQueue returns on an empty queue, otherwise
\* it takes retryQueue[0] and calls its operation
ProcessRetryQueue(queue, its, flights) ==
    IF queue = <<>>
    THEN /\ items' = its
         /\ inFlight' = flights
    ELSE /\ items' = Invoked(its, queue[1])
         /\ inFlight' = Append(flights, queue[1])

\* lines 323-336: the item is pushed and processRetryQueue is called
AddToRetryQueue ==
    \E maxRetries \in {1, MAX_RETRIES} :
        LET o == Cardinality(DOMAIN items) + 1
            item == [maxRetries |-> maxRetries, currentRetries |-> 0,
                     invoked |-> 0, promise |-> "pending"]
            pushed == [k \in (DOMAIN items) \cup {o} |->
                          IF k = o THEN item ELSE items[k]]
        IN  /\ o <= MaxOperations
            /\ retryQueue' = Append(retryQueue, o)
            /\ ProcessRetryQueue(retryQueue', pushed, inFlight)
            /\ UNCHANGED retryTimers
            /\ UNCHANGED <<pc, parseVars, syncStorage, localStorage, backendVars,
                           pageVars, loadVars, pipelines>>

\* a promise settles once: resolve and reject of a settled one do nothing
Settled(its, o, how) ==
    IF its[o].promise = "pending" THEN [its EXCEPT ![o].promise = how] ELSE its

\* lines 345-348: the awaited operation of call k fulfils; the item of the
\* call is resolved and the head of the queue is shifted out
OperationFulfils(k) ==
    /\ k \in 1..Len(inFlight)
    /\ items' = Settled(items, inFlight[k], "resolved")
    /\ retryQueue' = Shifted(retryQueue)
    /\ inFlight' = WithoutAt(inFlight, k)
    /\ UNCHANGED retryTimers
    /\ UNCHANGED <<pc, parseVars, syncStorage, localStorage, backendVars,
                   pageVars, loadVars, pipelines>>

\* lines 350-361: the awaited operation of call k rejects; the item's
\* retries are counted, and it is rejected and the head shifted out, or a
\* timer is set for the next processRetryQueue
OperationRejects(k) ==
    /\ k \in 1..Len(inFlight)
    /\ LET o == inFlight[k]
           counted == [items EXCEPT ![o].currentRetries = @ + 1]
       IN  IF counted[o].currentRetries >= counted[o].maxRetries
           THEN /\ items' = Settled(counted, o, "rejected")
                /\ retryQueue' = Shifted(retryQueue)
                /\ UNCHANGED retryTimers
           ELSE /\ items' = counted
                /\ retryTimers' = retryTimers + 1
                /\ UNCHANGED retryQueue
    /\ inFlight' = WithoutAt(inFlight, k)
    /\ UNCHANGED <<pc, parseVars, syncStorage, localStorage, backendVars,
                   pageVars, loadVars, pipelines>>

\* lines 357-359: a timer fires and calls processRetryQueue
RetryTimerFires ==
    /\ retryTimers > 0
    /\ retryTimers' = retryTimers - 1
    /\ ProcessRetryQueue(retryQueue, items, inFlight)
    /\ UNCHANGED retryQueue
    /\ UNCHANGED <<pc, parseVars, syncStorage, localStorage, backendVars,
                   pageVars, loadVars, pipelines>>

OperationsFulfil == \E k \in 1..Len(inFlight) : OperationFulfils(k)
OperationsReject == \E k \in 1..Len(inFlight) : OperationRejects(k)

\* lines 13-19: the recovery object after its constructor
InitRecovery ==
    /\ PipelineIdle
    /\ LoadIdle
    /\ WorkerIdle
    /\ syncStorage = EmptyStorage
    /\ localStorage = EmptyStorage
    /\ dynamicRules = <<>>
    /\ PageIdle
    /\ pageDomain = <<"a", ".", "c">>

NextRecovery ==
    \/ AddToRetryQueue
    \/ OperationsFulfil
    \/ OperationsReject
    \/ RetryTimerFires

SpecRecovery == InitRecovery /\ [][NextRecovery]_vars

(***************************************************************************)
(* The content script                                                      *)
(***************************************************************************)
\* CSSInjector.init -> getCSSRules -> injectCSSRules -> getApplicableRules
InjectCSSRules ==
    /\ pagePc = "init"
    /\ pagePc' = "injected"
    /\ applicableRules' =
         getApplicableRules(IF "cssRules" \in DOMAIN localStorage
                            THEN localStorage.cssRules
                            ELSE EmptyStorage,
                            pageDomain)
    /\ UNCHANGED pageDomain
    /\ UNCHANGED <<pc, parseVars, syncStorage, localStorage, backendVars, loadVars,
                 workerVars, recoveryVars>>

\* a page opened on some host while storage holds some CSS rule set
InitInjector ==
    /\ PipelineIdle
    /\ LoadIdle
    /\ WorkerIdle
    /\ syncStorage = EmptyStorage
    /\ localStorage \in {EmptyStorage} \cup {[cssRules |-> s] : s \in StoredCssRules}
    /\ dynamicRules = <<>>
    /\ PageIdle

NextInjector == InjectCSSRules

SpecInjector == InitInjector /\ [][NextInjector]_vars

(***************************************************************************)
(* Vocabulary of the properties                                            *)
(***************************************************************************)
sACaret == <<"|", "|", "a", ".", "c", "^">>
sAC == <<"a", ".", "c">>

\* the step of parseFilterList's loop that processes one line
LineStep == pc = "loop" /\ nLines' = nLines + 1

\* the rules a step appended
Appended == SubSeq(rules', Len(rules) + 1, Len(rules'))

\* the update calls issued once applyFilterRules has run
Applied == pc \in {"applied", "failed"}

\* two rules carry the same (urlFilter, action type) pair
SameKey(r1, r2) ==
    /\ r1.condition.urlFilter = r2.condition.urlFilter
    /\ r1.action.type = r2.action.type

\* positions of the rules that are the first of their pair
FirstOfKey(rs) == {i \in 1..Len(rs) : \A j \in 1..(i - 1) : ~SameKey(rs[j], rs[i])}

\* r1 and r2 agree on everything but condition.excludedInitiatorDomains
SameButExclusions(r1, r2) ==
    /\ r1.id = r2.id
    /\ r1.priority = r2.priority
    /\ r1.action = r2.action
    /\ r1.condition.urlFilter = r2.condition.urlFilter
    /\ r1.condition.resourceTypes = r2.condition.resourceTypes
    /\ ("domainType" \in DOMAIN r1.condition) = ("domainType" \in DOMAIN r2.condition)
    /\ ("domainType" \in DOMAIN r1.condition
           => r1.condition.domainType = r2.condition.domainType)
    /\ (DOMAIN r1.condition) \ {"excludedInitiatorDomains"}
         = (DOMAIN r2.condition) \ {"excludedInitiatorDomains"}

(***************************************************************************)
(* C1: parseFilterList stops as soon as the number of emitted rules        *)
(* reaches MAX_RULES, so the rule sequence never holds more than MAX_RULES *)
(* rules, whatever kinds of lines the document holds.                      *)
(***************************************************************************)
C1_RuleCeiling == Len(rules) <= MAX_RULES

(***************************************************************************)
(* C2: the id counter starts at 1 and advances only when a rule is         *)
(* emitted, so the ids of the rules are exactly 1, 2, ..., n in source     *)
(* order.                                                                  *)
(***************************************************************************)
C2_IdsSequential ==
    /\ id = Len(rules) + 1
    /\ \A i \in 1..Len(rules) : rules[i].id = i

(***************************************************************************)
(* C3: every emitted rule has a positive id, distinct from the id of every *)
(* other rule of the compile, and never greater than MAX_RULES.            *)
(***************************************************************************)
C3_IdsPositiveDistinctCapped ==
    /\ \A i \in 1..Len(rules) : rules[i].id >= 1 /\ rules[i].id <= MAX_RULES
    /\ \A i, j \in 1..Len(rules) : i # j => rules[i].id # rules[j].id

C5_Dedup ==
    Applied =>
        LET out == calls[1].addRules
            first == FirstOfKey(rules)
        IN  /\ Len(out) = Cardinality(first)
            /\ \A i \in first :
                 SameButExclusions(out[Cardinality({j \in first : j <= i})], rules[i])

C5_Witness ==
    /\ pc = "applied"
    /\ Len(rules) = 3
    /\ rules[1].action.type = "allow"
    /\ rules[2].action.type = "block"
    /\ rules[3].action.type = "block"
    /\ rules[1].condition.urlFilter = rules[2].condition.urlFilter
    /\ rules[2].condition.urlFilter = rules[3].condition.urlFilter
    /\ rules[2].priority # rules[3].priority
    /\ rules[2].condition.resourceTypes # rules[3].condition.resourceTypes
    /\ RuleIds(calls[1].addRules) = <<1, 2>>

(***************************************************************************)
(* C6: every rule handed to the backend, Block and Allow alike, has        *)
(* excludedInitiatorDomains equal to the whole stored whitelist (empty     *)
(* when none is stored), replacing what the rule carried; id, priority,    *)
(* action, urlFilter, resourceTypes and domainType are those of the        *)
(* compiled rule.                                                          *)
(***************************************************************************)
C6_WhitelistApplied ==
    \A c \in 1..Len(calls) : \A k \in 1..Len(calls[c].addRules) :
        LET r == calls[c].addRules[k]
        IN  /\ r.condition.excludedInitiatorDomains =
                 (IF "whitelist" \in DOMAIN syncStorage THEN syncStorage.whitelist ELSE <<>>)
            /\ \E i \in 1..Len(rules) : SameButExclusions(r, rules[i])

C6_Witness ==
    /\ pc = "applied"
    /\ "whitelist" \in DOMAIN syncStorage
    /\ Len(syncStorage.whitelist) = 2
    /\ \E k \in 1..Len(calls[1].addRules) :
          /\ calls[1].addRules[k].action.type = "allow"
          /\ calls[1].addRules[k].condition.excludedInitiatorDomains = syncStorage.whitelist
    /\ \E k \in 1..Len(calls[1].addRules) :
          /\ calls[1].addRules[k].action.type = "block"
          /\ "domainType" \in DOMAIN calls[1].addRules[k].condition
          /\ calls[1].addRules[k].condition.domainType = "thirdParty"
    /\ \E i \in 1..Len(rules) :
          /\ "excludedInitiatorDomains" \in DOMAIN rules[i].condition
          /\ rules[i].condition.excludedInitiatorDomains = <<>>
          /\ \E k \in 1..Len(calls[1].addRules) : calls[1].addRules[k].id = rules[i].id

(***************************************************************************)
(* C7: a compiled cosmetic rule goes to exceptions[domain] when it is an   *)
(* exception, to domains[domain] when it has a domain prefix, and to the   *)
(* store's global list (not to domains["global"]) when it has no prefix.   *)
(***************************************************************************)
C7_CssRouting ==
    [][(LineStep /\ IsCssLine(line') /\ parseCSSRule(line') # Null) =>
          LET r == parseCSSRule(line')[1]
              clean == IF StartsWith(line', sAtAt) THEN SubstringFrom(line', 2) ELSE line'
              prefix == SubSeq(clean, 1, IndexOf(clean, sHashHash))
          IN  IF r.isException
              THEN cssRules' = [cssRules EXCEPT !.exceptions = PushTo(@, r.domain, r.selector)]
              ELSE IF prefix # <<>>
              THEN cssRules' = [cssRules EXCEPT !.domains = PushTo(@, prefix, r.selector)]
              ELSE cssRules' = [cssRules EXCEPT !.global = Append(@, r.selector)]]_vars

(***************************************************************************)
(* C8: the selectors applied to a page are global ++ domains[domain], in   *)
(* that order, less every selector that contains as a substring some       *)
(* exception selector registered for that domain.                          *)
(***************************************************************************)
C8_ApplicableSelectors ==
    pagePc = "injected" =>
        LET stored == IF "cssRules" \in DOMAIN localStorage
                      THEN localStorage.cssRules ELSE EmptyCssRules
            listed == stored.global \o
                      (IF pageDomain \in DOMAIN stored.domains
                       THEN stored.domains[pageDomain] ELSE <<>>)
            exc == IF pageDomain \in DOMAIN stored.exceptions
                   THEN Range(stored.exceptions[pageDomain]) ELSE {}
            Kept(sel) == \A e \in exc : ~Includes(sel, e)
        IN  applicableRules = SelectSeq(listed, Kept)

(***************************************************************************)
(* C9: every rule produced from a line that starts with @@ has action      *)
(* Allow and priority 2 -- a line @@||d^ with a valid d yields exactly     *)
(* that rule for ||d^ -- whatever block rules the document holds before or *)
(* after it; no @@ line yields a Block rule.                               *)
(***************************************************************************)
C9_ExceptionIsAllow ==
    [][(LineStep /\ StartsWith(line', sAtAt)) =>
          /\ \A k \in 1..Len(Appended) :
                Appended[k].action.type = "allow" /\ Appended[k].priority = 2
          /\ LET d == Substring(line', 4, Len(line') - 1)
             IN  (StartsWith(line', sAtAt \o sBarBar) /\ EndsWith(line', sCaret)
                  /\ Len(line') >= 5 /\ isValidFilterDomain(d)) =>
                     /\ Len(Appended) = 1
                     /\ Appended[1].condition.urlFilter = sBarBar \o d \o sCaret
                     /\ Appended[1].condition.resourceTypes = AllResourceTypes
                     /\ SubSeq(rules', 1, Len(rules)) = rules]_vars

C9_Witness ==
    /\ pc = "loop"
    /\ line = sAtAt \o sACaret
    /\ Len(rules) = 2
    /\ rules[1].action.type = "block" /\ rules[1].condition.urlFilter = sBarBar \o sAC
    /\ rules[2].action.type = "allow" /\ rules[2].priority = 2
    /\ rules[2].condition.urlFilter = sACaret

(***************************************************************************)
(* C10 (as claimed): a line ||d^ yields exactly one rule when d passes     *)
(* isValidFilterDomain -- urlFilter "||" + d, Block, priority 1, all 12    *)
(* resource types, no excluded initiator domains -- and no rule at all     *)
(* when d fails validation.                                                *)
(***************************************************************************)
IsAnchorForm(l) == Len(l) >= 3 /\ StartsWith(l, sBarBar) /\ EndsWith(l, sCaret)

AnchorDomain(l) == SubSeq(l, 3, Len(l) - 1)

YieldsAnchorRule(d) ==
    /\ Len(Appended) = 1
    /\ SubSeq(rules', 1, Len(rules)) = rules
    /\ Appended[1].condition.urlFilter = sBarBar \o d
    /\ Appended[1].action.type = "block"
    /\ Appended[1].priority = 1
    /\ Appended[1].condition.resourceTypes = AllResourceTypes
    /\ Len(AllResourceTypes) = 12
    /\ "excludedInitiatorDomains" \in DOMAIN Appended[1].condition
    /\ Appended[1].condition.excludedInitiatorDomains = <<>>

C10_AnchorLine ==
    [][(LineStep /\ IsAnchorForm(line')) =>
          IF isValidFilterDomain(AnchorDomain(line'))
          THEN YieldsAnchorRule(AnchorDomain(line'))
          ELSE rules' = rules]_vars

(***************************************************************************)
(* C10 (amended): as claimed, except that a line ||d^ whose d fails        *)
(* validation yields no rule only when d holds no `$`; with a `$` the line *)
(* is a resource-type rule and may yield a rule.                           *)
(***************************************************************************)
C10_AnchorLineNoDollar ==
    [][(LineStep /\ IsAnchorForm(line')) =>
          IF isValidFilterDomain(AnchorDomain(line'))
          THEN YieldsAnchorRule(AnchorDomain(line'))
          ELSE (~Includes(AnchorDomain(line'), sDollar) => rules' = rules)]_vars

C10_Witness ==
    /\ pc = "loop"
    /\ line = sACaret
    /\ rules = <<createComprehensiveBlockRule(1, sAC)>>
    /\ rules[1].condition.urlFilter = <<"|", "|", "a", ".", "c">>

\* the token of a line ||token^
AnchorToken(l) == Substring(l, 2, Len(l) - 1)

\* the four conditions on a token, as the specification lists them
MeetsDomainConditions(t) ==
    /\ Len(t) >= 3 /\ Len(t) <= 253
    /\ \A i \in 1..Len(t) : t[i] \in DomainChars
    /\ t[1] # "." /\ t[Len(t)] # "."
    /\ \A i \in 1..(Len(t) - 1) : ~(t[i] = "." /\ t[i + 1] = ".")

\* C11: isValidFilterDomain accepts a token exactly when its length is in
\* [3, 253], its characters are in [a-z0-9.-], it neither starts nor ends
\* with a dot and it holds no "..": a line ||token^ appends a rule exactly
\* for such tokens, and the validator agrees with the four conditions on
\* every token, the empty one included, without lower-casing.
C11_ValidDomain ==
    /\ \A t \in DomainTokens :
          isValidFilterDomain(t) <=> (t # <<>> /\ MeetsDomainConditions(t))
    /\ (pc \in {"loop", "store"} /\ nLines = 1 /\ line \in AnchorLines)
          => (rules # <<>> <=>
                (AnchorToken(line) # <<>> /\ MeetsDomainConditions(AnchorToken(line))))

\* the longest token was accepted
C11_Witness ==
    /\ pc = "store"
    /\ line = sBarBar \o LongLabel(253) \o sCaret
    /\ Len(rules) = 1
    /\ rules[1].condition.urlFilter = sBarBar \o LongLabel(253)

\* C12: on every path that compiles a fetched text (loadFilterList,
\* getFilterListInfo, addCustomFilterList) the compile fails exactly when
\* the text is absent or shorter than 100 characters.
C12_LengthCheckEveryPath ==
    compiled.by # "none" =>
        (compiled.failed <=>
            (compiled.fetched = <<>> \/ Len(compiled.fetched[1]) < 100))

\* the last call issued
LastCall == calls[Len(calls)]

\* C13: when the backend rejects the update (the call is issued and the
\* installed rules are not what the call asks for), applyFilterRules has
\* issued that one call only, the installed rules are untouched and the
\* error reaches the caller; no later step of that invocation issues a call.
C13_RejectionPropagates ==
    /\ [][(pc = "parsed" /\ Len(calls') > Len(calls)
            /\ dynamicRules' # BackendAfter(dynamicRules, calls'[Len(calls')]))
           => (/\ Len(calls') = Len(calls) + 1
               /\ dynamicRules' = dynamicRules
               /\ pc' = "failed")]_vars
    /\ [][pc = "failed" => calls' = calls]_vars

\* a rejected update of a non-empty rule set over an installed rule
C13_Witness ==
    /\ pc = "failed"
    /\ Len(calls) = 1
    /\ LastCall.addRules # <<>>
    /\ LastCall.removeRuleIds = <<9991>>
    /\ dynamicRules = <<FallbackRule>>

\* C14: a failure of loading, compiling or applying, also the failure of
\* the last retry, leaves the installed rule set as it was: no step into
\* the failed state and no step of the handling of the failure changes the
\* installed rules.
C14_FailureKeepsInstalled ==
    [][(pc = "failed" \/ pc' = "failed") => dynamicRules' = dynamicRules]_vars

sACaretScript == <<"|", "|", "a", ".", "c", "^", "$", "s", "c", "r", "i", "p", "t">>

\* C15: a line is handled by the first category it matches in the order
\* ## -> @@ -> /.../* -> $ -> domain rules and appends at most one rule; a
\* line with ## appends no rule, and ||a.c^$script appends the resource-type
\* rule whose urlFilter is the pattern ||a.c^ and whose only type is script.
C15_FirstMatch ==
    [][LineStep =>
        LET l == line'
        IN  /\ Len(Appended) <= 1
            /\ SubSeq(rules', 1, Len(rules)) = rules
            /\ IF StartsWith(l, sBang) \/ Trim(l) = <<>> \/ Len(l) < 3
               THEN Appended = <<>>
               ELSE IF Includes(l, sHashHash)
               THEN Appended = <<>>
               ELSE IF StartsWith(l, sAtAt)
               THEN Appended = parseExceptionRule(l, id)
               ELSE IF StartsWith(l, sSlash) /\ Includes(l, sSlashStar)
               THEN Appended = parseURLPatternRule(l, id)
               ELSE IF Includes(l, sDollar)
               THEN Appended = parseResourceTypeRule(l, id)
               ELSE Appended = BlockRuleOf(l, id)
            /\ l = sACaretScript =>
                 Appended = <<[id |-> id,
                               priority |-> 1,
                               action |-> [type |-> "block"],
                               condition |-> [urlFilter |-> sACaret,
                                              resourceTypes |-> <<"script">>,
                                              domainType |-> "undefined"]]>>]_vars

\* the line ||a.c^$script has given its resource-type rule
C15_Witness ==
    /\ pc = "store"
    /\ line = sACaretScript
    /\ Len(rules) = 1
    /\ rules[1].condition.urlFilter = sACaret
    /\ rules[1].condition.resourceTypes = <<"script">>

\* C16: every line that starts with / and holds a second / (and no ##)
\* appends a block rule of priority 1 with urlFilter "*" + line + "*" and the
\* five resource types, whether or not a * follows the second /.
C16_PathLine ==
    [][(/\ LineStep
        /\ Len(line') >= 3
        /\ StartsWith(line', sSlash)
        /\ Includes(SubstringFrom(line', 1), sSlash)
        /\ ~Includes(line', sHashHash))
       => (/\ Len(Appended) = 1
           /\ Appended[1].priority = 1
           /\ Appended[1].action = [type |-> "block"]
           /\ Appended[1].condition =
                [urlFilter |-> sStar \o line' \o sStar,
                 resourceTypes |-> <<"script", "image", "stylesheet",
                                     "object", "xmlhttprequest">>])]_vars

\* the positions of l that hold ^ or /
MarkerPositions(l) == {i \in 1..Len(l) : l[i] \in {"^", "/"}}

\* the least member of a non-empty set of numbers
Least(S) == CHOOSE i \in S : \A j \in S : i <= j

\* C17: a line ||domain^rest or ||domain/rest with non-empty rest, handled
\* by the domain rules, appends a block rule with urlFilter ||domain, the
\* domain being the text between || and the first marker, when that domain
\* passes validation.
C17_AnchorWithRest ==
    [][(/\ LineStep
        /\ StartsWith(line', sBarBar)
        /\ ~Includes(line', sHashHash)
        /\ ~Includes(line', sDollar)
        /\ MarkerPositions(line') # {}
        /\ Least(MarkerPositions(line')) < Len(line')
        /\ isValidFilterDomain(SubSeq(line', 3, Least(MarkerPositions(line')) - 1)))
       => (/\ Len(Appended) = 1
           /\ Appended[1].action = [type |-> "block"]
           /\ Appended[1].condition.urlFilter =
                sBarBar \o SubSeq(line', 3, Least(MarkerPositions(line')) - 1))]_vars

\* the text of l before its first $ and the text after it
BeforeDollar(l) == SubSeq(l, 1, IndexOf(l, sDollar))
AfterDollar(l) == SubSeq(l, IndexOf(l, sDollar) + 2, Len(l))

\* C18: a line with $ that matches no earlier category appends a rule
\* exactly when its text before the first $ and its text after the first $
\* are both non-empty; no appended rule has the urlFilter ** and every
\* appended rule has a resource type.
C18_DollarLine ==
    [][(/\ LineStep
        /\ Len(line') >= 3
        /\ Includes(line', sDollar)
        /\ ~Includes(line', sHashHash)
        /\ ~StartsWith(line', sAtAt)
        /\ ~(StartsWith(line', sSlash) /\ Includes(line', sSlashStar)))
       => (/\ Appended # <<>> <=>
                (BeforeDollar(line') # <<>> /\ AfterDollar(line') # <<>>)
           /\ Appended # <<>> =>
                (/\ Appended[1].condition.urlFilter # sStar \o sStar
                 /\ Appended[1].condition.resourceTypes # <<>>))]_vars

\* the selectors held by a CSS rule set
SelectorsOf(css) ==
    Range(css.global)
        \cup UNION {Range(css.domains[d]) : d \in DOMAIN css.domains}
        \cup UNION {Range(css.exceptions[d]) : d \in DOMAIN css.exceptions}

\* the text of l after its first ##
AfterHashHash(l) == SubSeq(l, IndexOf(l, sHashHash) + 3, Len(l))

\* C19: every stored selector is non-empty and trimmed; a ## line whose
\* text after the first ## is empty after trimming stores nothing, and any
\* other ## line stores that text, trimmed, also when it holds ## itself.
C19_Selectors ==
    /\ [](\A sel \in SelectorsOf(cssRules) : sel # <<>> /\ Trim(sel) = sel)
    /\ [][(LineStep /\ Len(line') >= 3 /\ ~StartsWith(line', sBang)
            /\ Includes(line', sHashHash))
           => IF Trim(AfterHashHash(line')) = <<>>
              THEN cssRules' = cssRules
              ELSE /\ cssRules' # cssRules
                   /\ Trim(AfterHashHash(line')) \in SelectorsOf(cssRules')]_vars

\* the CSS rule set the content script reads from storage
Published ==
    IF "cssRules" \in DOMAIN localStorage THEN localStorage.cssRules
    ELSE EmptyCssRules

\* C20: when a compile has completed, the published CSS rule set is the one
\* built from that compile's text, also when the text holds no cosmetic
\* rule or only exception rules; nothing of an earlier compile stays
\* published.
C20_PublishedIsBuilt == pc = "parsed" => Published = cssRules

\* C21: the rules added by every backend update call have pairwise
\* distinct ids, also when the rules of two filter lists are merged into
\* one call.
C21_DistinctIdsInCall ==
    \A c \in 1..Len(calls) :
        \A i, j \in 1..Len(calls[c].addRules) :
            i # j => calls[c].addRules[i].id # calls[c].addRules[j].id

\* the loadFilterLists invocations between their start and their backend
\* update
InFlight == {i \in 1..Len(pipelines) : pipelines[i].pc \in {"start", "compiled", "read"}}

\* C22: at most one load-compile-apply pipeline is in flight at a time, so
\* the installed ids a pipeline has read are still the installed ids when
\* it issues its update.
C22_OneInFlight ==
    /\ Cardinality(InFlight) <= 1
    /\ \A i \in 1..Len(pipelines) :
          pipelines[i].pc = "read" =>
              pipelines[i].existingRuleIds = RuleIds(dynamicRules)

\* every invocation has returned and no retry timer is pending
Quiescent == \A i \in 1..Len(pipelines) : pipelines[i].pc \in {"done", "skipped"}

\* the last two messages were toggleEnabled(false) and toggleEnabled(true),
\* and the load of the second has not ended in the fallback rules
ToggledOffThenOn ==
    /\ Len(pipelines) >= 2
    /\ pipelines[Len(pipelines) - 1].origin = "toggleOff"
    /\ pipelines[Len(pipelines)].origin = "toggleEnabled"
    /\ pipelines[Len(pipelines)].stage = "lists"

\* C23: after toggleEnabled(false) and then toggleEnabled(true), once the
\* handlers have returned and nothing is pending, the filter rules are
\* installed again, whatever lastFilterUpdate was.
C23_EnableReinstalls ==
    (Quiescent /\ ToggledOffThenOn) => dynamicRules # <<>>

\* the whitelist in chrome.storage.sync
StoredWhitelistNow ==
    IF "whitelist" \in DOMAIN syncStorage THEN syncStorage.whitelist ELSE <<>>

\* C24: once an updateWhitelist message has been handled and nothing is
\* pending, every installed rule excludes exactly the whitelist now
\* stored; and every stored whitelist entry is lower-case and a valid
\* domain.
C24_WhitelistInForce ==
    /\ (Quiescent /\ Len(pipelines) >= 1
         /\ pipelines[Len(pipelines)].origin = "updateWhitelist")
        => \A r \in 1..Len(dynamicRules) :
              dynamicRules[r].condition.excludedInitiatorDomains = StoredWhitelistNow
    /\ \A d \in 1..Len(StoredWhitelistNow) :
          /\ toLowerCase(StoredWhitelistNow[d]) = StoredWhitelistNow[d]
          /\ isValidFilterDomain(StoredWhitelistNow[d])

\* C25: the step in which handleToggleEnabled(false) completes leaves no
\* dynamic rule in the backend.
C25_DisableRemovesAll ==
    [][ToggleOffRemoves => dynamicRules' = <<>>]_vars

\* a handleToggleEnabled(false) has completed and no toggleEnabled(true)
\* has arrived since
DisabledSince ==
    /\ syncStorage.isEnabled = FALSE
    /\ \E i \in 1..Len(pipelines) :
          /\ pipelines[i].origin = "toggleOff"
          /\ pipelines[i].pc = "done"
          /\ \A j \in (i + 1)..Len(pipelines) : pipelines[j].origin # "toggleEnabled"

\* C26: between the completion of handleToggleEnabled(false) and the next
\* toggleEnabled(true), no call to the backend installs a rule.
C26_NothingInstalledWhileDisabled ==
    [][(DisabledSince /\ ApplyUpdates) => dynamicRules' = <<>>]_vars

\* C27: loadFilterLists makes at most RETRY_ATTEMPTS + 1 attempts
\* (retryCount 0..RETRY_ATTEMPTS); a failed attempt below the limit
\* schedules a retry and the failed last attempt applies the fallback rules;
\* a retry always loads, it is never skipped; after the fallback rules no
\* retry follows; a successful attempt is followed by neither a retry nor
\* the fallback rules of loadFilterLists.
C27_BoundedRetries ==
    /\ [](retryCount \in 0..RETRY_ATTEMPTS)
    /\ [][pc = "failed" =>
             IF retryCount < RETRY_ATTEMPTS
             THEN pc' = "retryWait" /\ dynamicRules' = dynamicRules
             ELSE ApplyFallbackRules]_vars
    /\ [][pc = "retryWait" /\ pc' # pc =>
             pc' = "reload" /\ retryCount' = retryCount + 1]_vars
    /\ [][pc = "reload" => pc' \in {"parsed", "failed"}]_vars
    /\ [][ApplyFallbackRules =>
             pc = "failed" /\ retryCount = RETRY_ATTEMPTS]_vars
    /\ [][pc = "fallback" => pc' = "fallback" /\ ~ApplyFallbackRules]_vars
    /\ [][pc = "applied" =>
             pc' = "applied" /\ retryCount' = retryCount /\ ~ApplyFallbackRules]_vars

\* the fourth attempt (retryCount = RETRY_ATTEMPTS) has failed and the
\* fallback rules have been applied
C27_Witness ==
    /\ pc = "fallback"
    /\ retryCount = RETRY_ATTEMPTS
    /\ compiled.by = "loadFilterList"
    /\ compiled.failed

\* C29: when the onInstalled listener has finished and loadFilterLists has
\* installed the compiled rules, every compiled rule is still installed in
\* the backend.
C29_CompiledRulesKept ==
    (onInstalled = "done" /\ pc = "applied")
        => \A i \in 1..Len(rules) :
              \E j \in 1..Len(dynamicRules) : dynamicRules[j].id = rules[i].id

\* the CSS rule set `all` holds every domain and global selector of `css`
HoldsCssOf(all, css) ==
    /\ Range(css.global) \subseteq Range(all.global)
    /\ \A d \in DOMAIN css.domains :
          /\ d \in DOMAIN all.domains
          /\ Range(css.domains[d]) \subseteq Range(all.domains[d])

\* C30: after one loadFilterLists pass over both filter lists, the CSS rule
\* set in storage holds the cosmetic rules of every list that was compiled,
\* in either order of completion.
C30_CssOfEveryList ==
    (compiled.by = "loadFilterLists")
        => \A l \in 1..Len(compiled.lists) :
              ~compiled.lists[l].failed
                  => HoldsCssOf(Published, compiled.lists[l].cssRules)

\* C28: no item has left the retry queue with its promise unsettled; no
\* operation has been invoked more than maxRetries times; and when no
\* operation is in flight and no retry timer is pending, every operation
\* added has been invoked and its promise settled.
C28_QueueServesEveryItem ==
    /\ \A o \in DOMAIN items :
          o \notin Range(retryQueue) => items[o].promise # "pending"
    /\ \A o \in DOMAIN items : items[o].invoked <= items[o].maxRetries
    /\ (inFlight = <<>> /\ retryTimers = 0)
          => \A o \in DOMAIN items :
                items[o].invoked >= 1 /\ items[o].promise # "pending"

====
